---- MODULE Spec2Model ----
(***************************************************************************)
(* Model of validate_events.py: the EventsValidator class (schema check,   *)
(* null check, per-column validators, run loop, report) and main().        *)
(*                                                                         *)
(* A Python str that the program inspects character by character (a data   *)
(* field) is a sequence of one-character strings; a str that is only       *)
(* compared for equality (a header name, a column name) is a TLA+ string.  *)
(***************************************************************************)
EXTENDS Integers, Sequences, FiniteSets, TLC

(***************************************************************************)
(* Bounds of the model.                                                    *)
(***************************************************************************)
\* largest number of data records in an input file
MaxRows == 2
\* number of times main() is invoked on the same, unchanged file
MaxRuns == 2

(***************************************************************************)
(* Character classes and string helpers (Python str methods).              *)
(***************************************************************************)
Digits == {"0", "1", "2", "3", "4", "5", "6", "7", "8", "9"}

HexDigits == Digits \cup {"a", "b", "c", "d", "e", "f", "A", "B", "C", "D", "E", "F"}

Letters == {"a", "b", "c", "d", "e", "f", "g", "h", "i", "j", "k", "l", "m",
            "n", "o", "p", "q", "r", "s", "t", "u", "v", "w", "x", "y", "z",
            "A", "B", "C", "D", "E", "F", "G", "H", "I", "J", "K", "L", "M",
            "N", "O", "P", "Q", "R", "S", "T", "U", "V", "W", "X", "Y", "Z"}

\* the characters str.strip() removes (those the model's alphabet has)
Whitespace == {" ", "\t", "\n", "\r", "\f"}

RECURSIVE LStrip(_)
LStrip(s) ==
    IF s # <<>> /\ Head(s) \in Whitespace THEN LStrip(Tail(s)) ELSE s

RECURSIVE RStrip(_)
RStrip(s) ==
    IF s # <<>> /\ s[Len(s)] \in Whitespace
    THEN RStrip(SubSeq(s, 1, Len(s) - 1))
    ELSE s

\* str.strip()
Strip(s) == RStrip(LStrip(s))

\* str.startswith(p)
StartsWith(s, p) == Len(s) >= Len(p) /\ SubSeq(s, 1, Len(p)) = p

\* str.replace(c, r) for a one-character c
RECURSIVE Replace(_, _, _)
Replace(s, c, r) ==
    IF s = <<>> THEN <<>>
    ELSE (IF Head(s) = c THEN r ELSE <<Head(s)>>) \o Replace(Tail(s), c, r)

\* str.split(sep) for a one-character sep: always at least one part
RECURSIVE SplitFrom(_, _, _)
SplitFrom(s, sep, cur) ==
    IF s = <<>> THEN <<cur>>
    ELSE IF Head(s) = sep THEN <<cur>> \o SplitFrom(Tail(s), sep, <<>>)
    ELSE SplitFrom(Tail(s), sep, Append(cur, Head(s)))

Split(s, sep) == SplitFrom(s, sep, <<>>)

AllIn(s, chars) == \A k \in 1..Len(s) : s[k] \in chars

IsDigits(s) == s # <<>> /\ AllIn(s, Digits)

DigitVal(c) == CHOOSE n \in 0..9 : <<"0", "1", "2", "3", "4", "5", "6", "7", "8", "9">>[n + 1] = c

\* int(s) for a non-empty string of decimal digits
RECURSIVE Num(_)
Num(s) == IF s = <<>> THEN 0 ELSE 10 * Num(SubSeq(s, 1, Len(s) - 1)) + DigitVal(s[Len(s)])

\* str.lower() on the letters the float() keywords use
LowerChar(c) ==
    CASE c = "I" -> "i" [] c = "N" -> "n" [] c = "F" -> "f" [] c = "A" -> "a"
      [] c = "T" -> "t" [] c = "Y" -> "y" [] c = "E" -> "e" [] OTHER -> c

Lower(s) == [k \in 1..Len(s) |-> LowerChar(s[k])]

\* the index of the first character of s that is in chars, 0 when there is none
FirstIn(s, chars) ==
    IF \E k \in 1..Len(s) : s[k] \in chars
    THEN CHOOSE k \in 1..Len(s) : s[k] \in chars /\ \A j \in 1..(k - 1) : s[j] \notin chars
    ELSE 0

(***************************************************************************)
(* EventsValidator.EXPECTED_COLUMNS                                        *)
(***************************************************************************)
EXPECTED_COLUMNS ==
    <<"event_id", "timestamp", "user_id", "ip", "country", "event_type", "amount">>

\* len(validators): the inner loop of run() enumerates the 7 validators
NumColumns == Len(EXPECTED_COLUMNS)

\* the literal "<NULL>" check_null records
NULL_VALUE == <<"<", "N", "U", "L", "L", ">">>

(***************************************************************************)
(* Column validators.                                                      *)
(***************************************************************************)
validate_event_id(val) == StartsWith(val, <<"e">>) /\ Len(val) > 1

\* datetime.fromisoformat: YYYY-MM-DD[*HH[:MM[:SS[.fff[fff]]]][+HH:MM[:SS]]]
IsLeap(y) == (y % 4 = 0 /\ y % 100 # 0) \/ y % 400 = 0

DaysInMonth(y, m) ==
    IF m = 2 THEN (IF IsLeap(y) THEN 29 ELSE 28)
    ELSE IF m \in {4, 6, 9, 11} THEN 30 ELSE 31

IsIsoDate(s) ==
    /\ Len(s) = 10
    /\ s[5] = "-" /\ s[8] = "-"
    /\ IsDigits(SubSeq(s, 1, 4)) /\ IsDigits(SubSeq(s, 6, 7)) /\ IsDigits(SubSeq(s, 9, 10))
    /\ LET y == Num(SubSeq(s, 1, 4))
           m == Num(SubSeq(s, 6, 7))
           d == Num(SubSeq(s, 9, 10))
       IN  y >= 1 /\ m \in 1..12 /\ d >= 1 /\ d <= DaysInMonth(y, m)

\* HH[:MM[:SS]] with two-digit components separated by ":"
IsHms(s, maxParts) ==
    LET parts == Split(s, ":")
    IN  /\ Len(parts) \in 1..maxParts
        /\ \A k \in 1..Len(parts) : Len(parts[k]) = 2 /\ IsDigits(parts[k])
        /\ Num(parts[1]) < 24
        /\ \A k \in 2..Len(parts) : Num(parts[k]) < 60

IsIsoClock(s) ==
    LET dot == FirstIn(s, {"."})
    IN  IF dot = 0 THEN IsHms(s, 3)
        ELSE /\ Len(SubSeq(s, 1, dot - 1)) = 8
             /\ IsHms(SubSeq(s, 1, dot - 1), 3)
             /\ Len(s) - dot \in {3, 6}
             /\ IsDigits(SubSeq(s, dot + 1, Len(s)))

IsIsoOffset(s) ==
    /\ Len(Split(s, ":")) \in 2..3
    /\ IsHms(s, 3)

IsIsoTime(s) ==
    LET sign == FirstIn(s, {"+", "-"})
    IN  IF sign = 0 THEN IsIsoClock(s)
        ELSE /\ IsIsoClock(SubSeq(s, 1, sign - 1))
             /\ IsIsoOffset(SubSeq(s, sign + 1, Len(s)))

fromisoformat(s) ==
    /\ Len(s) >= 10
    /\ IsIsoDate(SubSeq(s, 1, 10))
    /\ Len(s) > 10 => (Len(s) >= 13 /\ IsIsoTime(SubSeq(s, 12, Len(s))))

validate_timestamp(val) == fromisoformat(Replace(val, "Z", <<"+", "0", "0", ":", "0", "0">>))

validate_user_id(val) == StartsWith(val, <<"u", "_">>) /\ Len(val) > 2

\* ipaddress.ip_address: an IPv4 dotted quad, or an IPv6 literal
IsOctet(s) ==
    /\ Len(s) \in 1..3
    /\ IsDigits(s)
    /\ Len(s) > 1 => s[1] # "0"
    /\ Num(s) <= 255

IsIPv4(s) ==
    LET parts == Split(s, ".")
    IN  Len(parts) = 4 /\ \A k \in 1..4 : IsOctet(parts[k])

IsHextet(s) == Len(s) \in 1..4 /\ AllIn(s, HexDigits)

\* hextets separated by ":", at most one "::" standing for one or more zero groups
IsIPv6(s) ==
    LET parts == Split(s, ":")
        n == Len(parts)
        empties == {k \in 1..n : parts[k] = <<>>}
        inner == {k \in empties : 1 < k /\ k < n}
    IN  /\ n \in 3..9
        /\ \A k \in 1..n : parts[k] = <<>> \/ IsHextet(parts[k])
        /\ Cardinality(inner) <= 1
        /\ 1 \in empties => 2 \in empties
        /\ n \in empties => (n - 1) \in empties
        /\ IF empties = {} THEN n = 8
           ELSE /\ Cardinality(inner) = 1 \/ empties = {1, 2, 3}
                /\ Cardinality({k \in 1..n : parts[k] # <<>>}) <= 7
                /\ n = 9 => (1 \in empties \/ n \in empties)

ip_address(s) == IsIPv4(s) \/ IsIPv6(s)

validate_ip(val) == ip_address(val)

validate_country(val) == Len(val) = 2 /\ AllIn(val, Letters)

EVENT_TYPES ==
    { <<"l", "o", "g", "i", "n">>,
      <<"c", "h", "a", "n", "g", "e", "_", "p", "a", "s", "s", "w", "o", "r", "d">>,
      <<"p", "a", "y", "m", "e", "n", "t">> }

validate_event_type(val) == val \in EVENT_TYPES

\* float(): [sign] (digits [. [digits]] | . digits) [e [sign] digits], or
\* [sign] inf | infinity | nan in any case
IsMantissa(s) ==
    LET parts == Split(s, ".")
    IN  \/ Len(parts) = 1 /\ IsDigits(parts[1])
        \/ /\ Len(parts) = 2
           /\ parts[1] = <<>> \/ IsDigits(parts[1])
           /\ parts[2] = <<>> \/ IsDigits(parts[2])
           /\ parts[1] # <<>> \/ parts[2] # <<>>

Unsigned(s) == IF s # <<>> /\ Head(s) \in {"+", "-"} THEN Tail(s) ELSE s

IsFloatLiteral(s) ==
    LET body == Unsigned(s)
        e == FirstIn(body, {"e", "E"})
    IN  \/ Lower(body) \in { <<"i", "n", "f">>, <<"n", "a", "n">>,
                             <<"i", "n", "f", "i", "n", "i", "t", "y">> }
        \/ e = 0 /\ IsMantissa(body)
        \/ /\ e > 0
           /\ IsMantissa(SubSeq(body, 1, e - 1))
           /\ IsDigits(Unsigned(SubSeq(body, e + 1, Len(body))))

validate_amount(val) == IsFloatLiteral(val)

\* validators[i](val), 1-based
ApplyValidator(idx, val) ==
    CASE idx = 1 -> validate_event_id(val)
      [] idx = 2 -> validate_timestamp(val)
      [] idx = 3 -> validate_user_id(val)
      [] idx = 4 -> validate_ip(val)
      [] idx = 5 -> validate_country(val)
      [] idx = 6 -> validate_event_type(val)
      [] idx = 7 -> validate_amount(val)

(***************************************************************************)
(* Input files: the records csv.reader yields, header first.               *)
(***************************************************************************)
GoodRow ==
    << <<"e", "1">>,
       <<"2", "0", "2", "4", "-", "0", "1", "-", "0", "1", "T",
         "0", "0", ":", "0", "0", ":", "0", "0", "Z">>,
       <<"u", "_", "4", "2">>,
       <<"1", "2", "7", ".", "0", ".", "0", ".", "1">>,
       <<"U", "S">>,
       <<"l", "o", "g", "i", "n">>,
       <<"9", ".", "9", "9">> >>

BadDate == <<"b", "a", "d", "-", "d", "a", "t", "e">>

RowPool ==
    { GoodRow,
      [GoodRow EXCEPT ![1] = <<"x", "1">>],
      [GoodRow EXCEPT ![2] = BadDate],
      [GoodRow EXCEPT ![7] = <<>>],
      [GoodRow EXCEPT ![4] = <<" ", "\t">>],
      [GoodRow EXCEPT ![1] = <<" ", "e", "1", " ">>, ![5] = <<" ", "U", "1">>],
      [GoodRow EXCEPT ![1] = <<"x", "1">>, ![3] = <<"u", "_">>, ![6] = <<>>,
                      ![7] = <<"a", "b", "c">>],
      [k \in 1..7 |-> <<>>],
      [GoodRow EXCEPT ![1] = NULL_VALUE],
      GoodRow \o << <<"e", "x", "t", "r", "a">> >>,
      SubSeq(GoodRow, 1, 6),
      << <<"x", "1">>, <<>> >>,
      <<>> }

HeaderPool ==
    { EXPECTED_COLUMNS,
      <<"timestamp", "event_id", "user_id", "ip", "country", "event_type", "amount">>,
      <<"event_id", "timestamp", "user_id", "ip", "country", "event_type">>,
      EXPECTED_COLUMNS \o <<"note">>,
      <<"Event_ID", "timestamp", "user_id", "ip", "country", "event_type", "amount">>,
      <<"event_id", "timestamp", "user_id", "ip", "country", "event_type", "value">>,
      <<>> }

\* the stripped field values that occur in the input pool
FieldValues == UNION { {Strip(r[c]) : c \in 1..Len(r)} : r \in RowPool }

\* per column, the values its validator accepts (the verdicts are tabulated once
\* over the pool's values, which are the only ones a run meets)
ValidValues == [idx \in 1..NumColumns |-> {v \in FieldValues : ApplyValidator(idx, v)}]

\* validator(value) in run()
Validator(idx, val) == val \in ValidValues[idx]

RECURSIVE RowSeqs(_)
RowSeqs(n) ==
    IF n = 0 THEN { <<>> }
    ELSE RowSeqs(n - 1) \cup
         { Append(rs, r) : rs \in { q \in RowSeqs(n - 1) : Len(q) = n - 1 }, r \in RowPool }

\* a file with no record at all, or a header record followed by data records
InputFiles ==
    { <<>> } \cup
    { <<h>> \o rs : h \in { EXPECTED_COLUMNS }, rs \in RowSeqs(MaxRows) } \cup
    { <<h>> \o rs : h \in HeaderPool \ { EXPECTED_COLUMNS }, rs \in RowSeqs(1) }

\* len(sys.argv) values main() is started with
ArgCounts == {1, 2, 3}

(***************************************************************************)
(* State.                                                                  *)
(***************************************************************************)
VARIABLES
    argc,            \* len(sys.argv)
    file,            \* the records of the input file (never written)
    run_no,          \* which invocation of main() on this file is running
    pc,              \* position in main()/run(), or how the process ended
    reader,          \* number of records the csv reader has yielded
    header,          \* run(): header
    row,             \* run(): row
    i,               \* run(): column index of the inner loop, 1-based
    row_ok,          \* run(): row_ok
    total_rows,      \* self.total_rows
    passed_rows,     \* self.passed_rows
    failed_rows,     \* self.failed_rows
    failed_details,  \* self.failed_details
    schema_ok,       \* self.schema_ok
    console,         \* the lines printed to stdout by this process
    raised,          \* the exception that ended the process, if any
    json_file,       \* validation_report.json on disk: the documents it holds
    prev,            \* what the previous invocation left: outcome, console, report
    evaluated,       \* history: (row number, row) of each iteration of the row loop
    validator_calls  \* history: (row number, column) of each validator(value) call

vars == <<argc, file, run_no, pc, reader, header, row, i, row_ok, total_rows,
          passed_rows, failed_rows, failed_details, schema_ok, console, raised,
          json_file, prev, evaluated, validator_calls>>

NoException == [type |-> "none", expected |-> <<>>, found |-> <<>>]

NoPrev == [outcome |-> "none", console |-> <<>>, report |-> <<>>]

\* how a process can have ended
Terminal == {"exit0", "usage_exit", "ValueError", "StopIteration", "IndexError"}

\* a line of stdout: what was printed and the values interpolated into it
Line(kind, n, column, value) == [kind |-> kind, n |-> n, column |-> column, value |-> value]

Text(kind) == Line(kind, 0, "", <<>>)


(***************************************************************************)
(* EventsValidator: the pure parts of its methods.                         *)
(***************************************************************************)
\* __init__: the fields of a new validator
NewValidator ==
    [total_rows |-> 0, passed_rows |-> 0, failed_rows |-> 0,
     failed_details |-> <<>>, schema_ok |-> FALSE]

\* mutant: the header is compared as a set of names, so column order is not checked
SchemaMatches_anyorder(h) ==
    {h[k] : k \in 1..Len(h)} = {EXPECTED_COLUMNS[k] : k \in 1..Len(EXPECTED_COLUMNS)}

\* run(): header == self.EXPECTED_COLUMNS (list equality: same length, same
\* names in the same order, compared exactly)
SchemaMatches(h) == h = EXPECTED_COLUMNS

\* mutant: failed_details.insert(0, rec)
AppendFailure_front(details, rec) == <<rec>> \o details

\* self.failed_details.append(rec)
AppendFailure(details, rec) == Append(details, rec)

\* check_null: the result, and self.failed_details after the call
check_null(details, value, row_num, col_name) ==
    IF Strip(value) = <<>>
    THEN [ok |-> FALSE, details |-> AppendFailure(details, <<row_num, col_name, NULL_VALUE>>)]
    ELSE [ok |-> TRUE, details |-> details]

\* mutant: the index test is off by one
HasField_strict(r, idx) == idx < Len(r)

\* run(): whether row[idx] exists (idx is 1-based here, i + 1 of the code)
HasField(r, idx) == idx <= Len(r)

\* mutant: no "continue" after a failed null check, the type check runs as well
EvalColumn_nocontinue(details, ok, row_num, idx, r) ==
    LET col_name == EXPECTED_COLUMNS[idx]
        value == Strip(r[idx])
        nul == check_null(details, value, row_num, col_name)
    IN  IF ~Validator(idx, value)
        THEN [details |-> AppendFailure(nul.details, <<row_num, col_name, value>>),
              row_ok |-> FALSE, called |-> TRUE]
        ELSE [details |-> nul.details, row_ok |-> ok /\ nul.ok, called |-> TRUE]

\* mutant: the row's remaining columns are not evaluated once one has failed
EvalColumn_break(details, ok, row_num, idx, r) ==
    LET col_name == EXPECTED_COLUMNS[idx]
        value == Strip(r[idx])
        nul == check_null(details, value, row_num, col_name)
    IN  IF ~ok
        THEN [details |-> details, row_ok |-> FALSE, called |-> FALSE]
        ELSE IF ~nul.ok
        THEN [details |-> nul.details, row_ok |-> FALSE, called |-> FALSE]
        ELSE IF ~Validator(idx, value)
        THEN [details |-> AppendFailure(nul.details, <<row_num, col_name, value>>),
              row_ok |-> FALSE, called |-> TRUE]
        ELSE [details |-> nul.details, row_ok |-> ok, called |-> TRUE]

\* run(): the body of the inner loop for column idx of row r. Gives
\* self.failed_details and row_ok after it, and whether validator(value) was called
EvalColumn(details, ok, row_num, idx, r) ==
    LET col_name == EXPECTED_COLUMNS[idx]
        value == Strip(r[idx])
        nul == check_null(details, value, row_num, col_name)
    IN  IF ~nul.ok
        THEN [details |-> nul.details, row_ok |-> FALSE, called |-> FALSE]
        ELSE IF ~Validator(idx, value)
        THEN [details |-> AppendFailure(nul.details, <<row_num, col_name, value>>),
              row_ok |-> FALSE, called |-> TRUE]
        ELSE [details |-> nul.details, row_ok |-> ok, called |-> TRUE]

\* mutant: passed_rows is incremented for every row
CountRow_both(passed, failed, ok) ==
    IF ok THEN [passed_rows |-> passed + 1, failed_rows |-> failed]
    ELSE [passed_rows |-> passed + 1, failed_rows |-> failed + 1]

\* run(): the counters after a row: passed_rows += 1 or failed_rows += 1
CountRow(passed, failed, ok) ==
    IF ok THEN [passed_rows |-> passed + 1, failed_rows |-> failed]
    ELSE [passed_rows |-> passed, failed_rows |-> failed + 1]

\* report(): report_data
ReportData(sok, total, passed, failed, details) ==
    [schema_check |-> IF sok THEN "PASSED" ELSE "FAILED",
     checks_performed |-> <<"Schema check", "Null check", "Type/Format check",
                            "Allowed values check">>,
     summary |-> [total_rows |-> total, passed_rows |-> passed, failed_rows |-> failed],
     failed_details |-> [k \in 1..Len(details) |->
                            [row |-> details[k][1], column |-> details[k][2],
                             invalid_value |-> details[k][3]]]]

\* mutant: only the first failure is printed
DetailLines_first(failed, details) ==
    IF failed > 0
    THEN <<Text("failed_details_title")>> \o
         [k \in 1..(IF Len(details) > 1 THEN 1 ELSE Len(details)) |->
             Line("detail", details[k][1], details[k][2], details[k][3])]
    ELSE <<>>

\* report(): the "Failed details:" block of the console output
DetailLines(failed, details) ==
    IF failed > 0
    THEN <<Text("failed_details_title")>> \o
         [k \in 1..Len(details) |-> Line("detail", details[k][1], details[k][2], details[k][3])]
    ELSE <<>>

\* report(): everything it prints
ReportLines(total, passed, failed, details) ==
    << Text("report_title"),
       Text("checks_performed"),
       IF failed > 0 THEN Line("row_level_failed", failed, "", <<>>)
                     ELSE Text("row_level_passed"),
       Line("total_rows", total, "", <<>>),
       Line("passed_rows", passed, "", <<>>),
       Line("failed_rows", failed, "", <<>>) >>
    \o DetailLines(failed, details)
    \o <<Text("report_written")>>

\* mutant: open(json_file, "a"): the document is appended to what the file holds
WriteJson_append(disk, doc) == Append(disk, doc)

\* report(): open(json_file, "w") and json.dump: the file holds this document only
WriteJson(disk, doc) == <<doc>>

(***************************************************************************)
(* Initial state: main() is about to run for the first time.               *)
(***************************************************************************)
Init ==
    /\ \/ argc = 2 /\ file \in InputFiles
       \/ argc \in ArgCounts \ {2} /\ file = <<>>
    /\ run_no = 1
    /\ pc = "main"
    /\ reader = 0
    /\ header = <<>>
    /\ row = <<>>
    /\ i = 1
    /\ row_ok = TRUE
    /\ total_rows = NewValidator.total_rows
    /\ passed_rows = NewValidator.passed_rows
    /\ failed_rows = NewValidator.failed_rows
    /\ failed_details = NewValidator.failed_details
    /\ schema_ok = NewValidator.schema_ok
    /\ console = <<>>
    /\ raised = NoException
    /\ json_file = <<>>
    /\ prev = NoPrev
    /\ evaluated = <<>>
    /\ validator_calls = <<>>

(***************************************************************************)
(* main()                                                                  *)
(***************************************************************************)
\* len(sys.argv) != 2: print the usage line, sys.exit(1)
MainUsage ==
    /\ pc = "main"
    /\ argc # 2
    /\ console' = Append(console, Text("usage"))
    /\ pc' = "usage_exit"
    /\ UNCHANGED <<argc, file, run_no, reader, header, row, i, row_ok, total_rows,
                   passed_rows, failed_rows, failed_details, schema_ok, raised,
                   json_file, prev, evaluated, validator_calls>>

\* validator = EventsValidator(csv_file), then validator.run() is entered
MainConstruct ==
    /\ pc = "main"
    /\ argc = 2
    /\ total_rows' = NewValidator.total_rows
    /\ passed_rows' = NewValidator.passed_rows
    /\ failed_rows' = NewValidator.failed_rows
    /\ failed_details' = NewValidator.failed_details
    /\ schema_ok' = NewValidator.schema_ok
    /\ pc' = "read_header"
    /\ UNCHANGED <<argc, file, run_no, reader, header, row, i, row_ok, console, raised,
                   json_file, prev, evaluated, validator_calls>>

(***************************************************************************)
(* EventsValidator.run()                                                   *)
(***************************************************************************)
\* header = next(reader): StopIteration when the file has no record
ReadHeader ==
    /\ pc = "read_header"
    /\ IF Len(file) = 0
       THEN /\ pc' = "StopIteration"
            /\ raised' = [NoException EXCEPT !.type = "StopIteration"]
            /\ UNCHANGED <<reader, header>>
       ELSE /\ header' = file[1]
            /\ reader' = 1
            /\ pc' = "schema"
            /\ UNCHANGED raised
    /\ UNCHANGED <<argc, file, run_no, row, i, row_ok, total_rows, passed_rows,
                   failed_rows, failed_details, schema_ok, console, json_file, prev,
                   evaluated, validator_calls>>

\* the schema check: schema_ok = True and a printed line, or raise ValueError
SchemaCheck ==
    /\ pc = "schema"
    /\ IF SchemaMatches(header)
       THEN /\ schema_ok' = TRUE
            /\ console' = Append(console, Text("schema_passed"))
            /\ pc' = "rows"
            /\ UNCHANGED raised
       ELSE /\ raised' = [type |-> "ValueError", expected |-> EXPECTED_COLUMNS,
                          found |-> header]
            /\ pc' = "ValueError"
            /\ UNCHANGED <<schema_ok, console>>
    /\ UNCHANGED <<argc, file, run_no, reader, header, row, i, row_ok, total_rows,
                   passed_rows, failed_rows, failed_details, json_file, prev,
                   evaluated, validator_calls>>

\* mutant: the row number counts the header record too
NextRow_countheader ==
    /\ pc = "rows"
    /\ reader < Len(file)
    /\ row' = file[reader + 1]
    /\ reader' = reader + 1
    /\ total_rows' = reader + 1
    /\ row_ok' = TRUE
    /\ i' = 1
    /\ evaluated' = Append(evaluated, <<reader + 1, file[reader + 1]>>)
    /\ pc' = "columns"
    /\ UNCHANGED <<argc, file, run_no, header, passed_rows, failed_rows,
                   failed_details, schema_ok, console, raised, json_file, prev,
                   validator_calls>>

\* mutant: row_ok is not reset for a new row
NextRow_noreset ==
    /\ pc = "rows"
    /\ reader < Len(file)
    /\ row' = file[reader + 1]
    /\ reader' = reader + 1
    /\ total_rows' = total_rows + 1
    /\ row_ok' = row_ok
    /\ i' = 1
    /\ evaluated' = Append(evaluated, <<total_rows + 1, file[reader + 1]>>)
    /\ pc' = "columns"
    /\ UNCHANGED <<argc, file, run_no, header, passed_rows, failed_rows,
                   failed_details, schema_ok, console, raised, json_file, prev,
                   validator_calls>>

\* for row in reader: the next record; total_rows += 1; row_ok = True
NextRow ==
    /\ pc = "rows"
    /\ reader < Len(file)
    /\ row' = file[reader + 1]
    /\ reader' = reader + 1
    /\ total_rows' = total_rows + 1
    /\ row_ok' = TRUE
    /\ i' = 1
    /\ evaluated' = Append(evaluated, <<total_rows + 1, file[reader + 1]>>)
    /\ pc' = "columns"
    /\ UNCHANGED <<argc, file, run_no, header, passed_rows, failed_rows,
                   failed_details, schema_ok, console, raised, json_file, prev,
                   validator_calls>>

\* one iteration of: for i, validator in enumerate(validators)
CheckColumn ==
    /\ pc = "columns"
    /\ i <= NumColumns
    /\ IF ~HasField(row, i)
       THEN /\ pc' = "IndexError"
            /\ raised' = [NoException EXCEPT !.type = "IndexError"]
            /\ UNCHANGED <<i, row_ok, failed_details, validator_calls>>
       ELSE LET out == EvalColumn(failed_details, row_ok, total_rows, i, row)
            IN  /\ failed_details' = out.details
                /\ row_ok' = out.row_ok
                /\ validator_calls' =
                       IF out.called THEN Append(validator_calls, <<total_rows, i>>)
                       ELSE validator_calls
                /\ i' = i + 1
                /\ UNCHANGED <<pc, raised>>
    /\ UNCHANGED <<argc, file, run_no, reader, header, row, total_rows, passed_rows,
                   failed_rows, schema_ok, console, json_file, prev, evaluated>>

\* after the inner loop: if row_ok: passed_rows += 1 else: failed_rows += 1
EndRow ==
    /\ pc = "columns"
    /\ i > NumColumns
    /\ LET c == CountRow(passed_rows, failed_rows, row_ok)
       IN  /\ passed_rows' = c.passed_rows
           /\ failed_rows' = c.failed_rows
    /\ pc' = "rows"
    /\ UNCHANGED <<argc, file, run_no, reader, header, row, i, row_ok, total_rows,
                   failed_details, schema_ok, console, raised, json_file, prev,
                   evaluated, validator_calls>>

\* the reader is exhausted: run() returns and main() goes on to report()
RowsExhausted ==
    /\ pc = "rows"
    /\ reader = Len(file)
    /\ pc' = "report"
    /\ UNCHANGED <<argc, file, run_no, reader, header, row, i, row_ok, total_rows,
                   passed_rows, failed_rows, failed_details, schema_ok, console,
                   raised, json_file, prev, evaluated, validator_calls>>

(***************************************************************************)
(* EventsValidator.report()                                                *)
(***************************************************************************)
Report ==
    /\ pc = "report"
    /\ console' = console \o ReportLines(total_rows, passed_rows, failed_rows,
                                         failed_details)
    /\ json_file' = WriteJson(json_file, ReportData(schema_ok, total_rows, passed_rows,
                                                    failed_rows, failed_details))
    /\ pc' = "exit0"
    /\ UNCHANGED <<argc, file, run_no, reader, header, row, i, row_ok, total_rows,
                   passed_rows, failed_rows, failed_details, schema_ok, raised, prev,
                   evaluated, validator_calls>>

(***************************************************************************)
(* The script is started again on the same file: a new process, whose      *)
(* memory and stdout are fresh; only the disk is kept.                     *)
(***************************************************************************)
Rerun ==
    /\ pc \in Terminal
    /\ run_no < MaxRuns
    /\ prev' = [outcome |-> pc, console |-> console, report |-> json_file]
    /\ run_no' = run_no + 1
    /\ pc' = "main"
    /\ reader' = 0
    /\ header' = <<>>
    /\ row' = <<>>
    /\ i' = 1
    /\ row_ok' = TRUE
    /\ total_rows' = 0
    /\ passed_rows' = 0
    /\ failed_rows' = 0
    /\ failed_details' = <<>>
    /\ schema_ok' = FALSE
    /\ console' = <<>>
    /\ raised' = NoException
    /\ evaluated' = <<>>
    /\ validator_calls' = <<>>
    /\ UNCHANGED <<argc, file, json_file>>

Next ==
    \/ MainUsage
    \/ MainConstruct
    \/ ReadHeader
    \/ SchemaCheck
    \/ NextRow
    \/ CheckColumn
    \/ EndRow
    \/ RowsExhausted
    \/ Report
    \/ Rerun

Spec == Init /\ [][Next]_vars

\* the interpreter runs the single thread until the process ends
FairSpec == Spec /\ WF_vars(Next)


(***************************************************************************)
(* Vocabulary of the properties.                                           *)
(***************************************************************************)
\* between rows: before the first row, after a row's counter update, and after run()
AtRowBoundary == pc \in {"rows", "report", "exit0"}

\* run() has returned normally
RunCompleted == pc \in {"report", "exit0"}

\* the header record differs from the expected schema
HeaderMismatch == argc = 2 /\ file # <<>> /\ file[1] # EXPECTED_COLUMNS

\* the header record is the expected schema
HeaderMatch == argc = 2 /\ file # <<>> /\ file[1] = EXPECTED_COLUMNS

\* field c of data row r as the file has it
Field(r, c) == file[r + 1][c]

FieldIsNull(r, c) == Strip(Field(r, c)) = <<>>

\* column c of data row r has been through the inner loop of run()
Processed(r, c) ==
    /\ r \in 1..total_rows
    /\ c \in 1..NumColumns
    /\ \/ r < total_rows
       \/ AtRowBoundary
       \/ pc \in {"columns", "IndexError"} /\ c < i

\* the columns of data row r that are null or fail their type validator
BadColumns(r) ==
    {c \in 1..NumColumns : FieldIsNull(r, c) \/ ~Validator(c, Strip(Field(r, c)))}

\* the positions of failed_details that carry row number r
RecordsOfRow(r) == {k \in 1..Len(failed_details) : failed_details[k][1] = r}

ColumnIndex(name) == CHOOSE c \in 1..NumColumns : EXPECTED_COLUMNS[c] = name

IsPrefix(a, b) == Len(a) <= Len(b) /\ SubSeq(b, 1, Len(a)) = a

\* what the console output says: schema status, counts, failure list
ConsoleInfo(c) ==
    LET of(kind) == SelectSeq(c, LAMBDA l : l.kind = kind)
        details == of("detail")
    IN  [schema |-> IF of("schema_passed") # <<>> THEN "PASSED" ELSE "ABSENT",
         total |-> [k \in 1..Len(of("total_rows")) |-> of("total_rows")[k].n],
         passed |-> [k \in 1..Len(of("passed_rows")) |-> of("passed_rows")[k].n],
         failed |-> [k \in 1..Len(of("failed_rows")) |-> of("failed_rows")[k].n],
         failures |-> [k \in 1..Len(details) |->
                          <<details[k].n, details[k].column, details[k].value>>]]

\* what a report document says
JsonInfo(d) ==
    [schema |-> d.schema_check,
     total |-> <<d.summary.total_rows>>,
     passed |-> <<d.summary.passed_rows>>,
     failed |-> <<d.summary.failed_rows>>,
     failures |-> [k \in 1..Len(d.failed_details) |->
                      <<d.failed_details[k].row, d.failed_details[k].column,
                        d.failed_details[k].invalid_value>>]]

(***************************************************************************)
(* Properties.                                                             *)
(***************************************************************************)
\* C1: at every row boundary (before the first row, after each row's counter
\* update) and after run() has completed, total_rows = passed_rows + failed_rows.
C1_CountersBalance ==
    AtRowBoundary => total_rows = passed_rows + failed_rows

C1_Witness ==
    /\ RunCompleted
    /\ total_rows = 2 /\ passed_rows = 1 /\ failed_rows = 1

\* C2: a header that differs from the expected schema in order, length or a name
\* ends the run in ValueError before any data row is read: the counters stay 0,
\* failed_details stays empty, schema_ok stays false, and report() never runs (no
\* report line is printed, no report file is written).
C2_SchemaMismatchAborts ==
    HeaderMismatch =>
        /\ pc \in {"main", "read_header", "schema", "ValueError"}
        /\ reader <= 1
        /\ total_rows = 0 /\ passed_rows = 0 /\ failed_rows = 0
        /\ failed_details = <<>>
        /\ schema_ok = FALSE
        /\ evaluated = <<>>
        /\ console = <<>>
        /\ json_file = <<>>
        /\ pc = "ValueError" =>
               raised = [type |-> "ValueError", expected |-> EXPECTED_COLUMNS,
                         found |-> file[1]]

C2_Witness ==
    /\ pc = "ValueError"
    /\ Len(file) = 2
    /\ Len(file[1]) = NumColumns
    /\ file[1][1] = "timestamp"

\* C3: with a header equal to the expected schema, schema_ok is true once the
\* header is checked, the k-th data row is evaluated exactly once, in file order,
\* with row number k, total_rows is the number of data rows when the reader is
\* exhausted, and total_rows > 0 implies schema_ok.
C3_RowsInFileOrder ==
    /\ total_rows > 0 => schema_ok
    /\ (HeaderMatch /\ pc \notin {"main", "read_header", "schema"}) => schema_ok
    /\ Len(evaluated) = total_rows
    /\ \A k \in 1..Len(evaluated) : evaluated[k] = <<k, file[k + 1]>>
    /\ pc \in {"rows", "columns", "report", "exit0", "IndexError"} => reader = total_rows + 1
    /\ RunCompleted => total_rows = Len(file) - 1

C3_Witness ==
    /\ pc = "exit0"
    /\ total_rows = 2
    /\ file[2] # file[3]
    /\ failed_rows = 1

\* C4: an empty or whitespace-only field gets exactly one failure record, (row
\* number, column name, "<NULL>"), and its type validator is not called; no two
\* records of failed_details have the same (row, column).
C4_NullReportedOnce ==
    /\ \A a, b \in 1..Len(failed_details) :
           (failed_details[a][1] = failed_details[b][1] /\
            failed_details[a][2] = failed_details[b][2]) => a = b
    /\ \A r \in 1..total_rows : \A c \in 1..NumColumns :
           (Processed(r, c) /\ FieldIsNull(r, c)) =>
               /\ Cardinality({k \in RecordsOfRow(r) :
                                   failed_details[k][2] = EXPECTED_COLUMNS[c]}) = 1
               /\ \E k \in RecordsOfRow(r) :
                      failed_details[k] = <<r, EXPECTED_COLUMNS[c], NULL_VALUE>>
               /\ \A k \in 1..Len(validator_calls) : validator_calls[k] # <<r, c>>

C4_Witness ==
    /\ pc = "exit0"
    /\ \E r \in 1..total_rows : \E c \in 1..NumColumns :
           /\ Field(r, c) # <<>>
           /\ FieldIsNull(r, c)
           /\ \E k \in 1..Len(failed_details) :
                  failed_details[k] = <<r, EXPECTED_COLUMNS[c], NULL_VALUE>>

\* C5: every column of every row is evaluated, whatever failed before: the number
\* of failure records with row number r is the number of columns of row r that
\* are null or fail their validator, a non-null failure records the trimmed
\* value, and row r counts as passed iff that number is 0, else once as failed.
C5_EveryColumnEvaluated ==
    AtRowBoundary =>
        /\ \A r \in 1..total_rows :
               /\ Cardinality(RecordsOfRow(r)) = Cardinality(BadColumns(r))
               /\ \A c \in BadColumns(r) : \E k \in RecordsOfRow(r) :
                      failed_details[k] =
                          <<r, EXPECTED_COLUMNS[c],
                            IF FieldIsNull(r, c) THEN NULL_VALUE ELSE Strip(Field(r, c))>>
        /\ passed_rows = Cardinality({r \in 1..total_rows : BadColumns(r) = {}})
        /\ failed_rows = Cardinality({r \in 1..total_rows : BadColumns(r) # {}})

C5_Witness ==
    /\ pc = "exit0"
    /\ total_rows = 2
    /\ Cardinality(BadColumns(1)) = 4
    /\ Cardinality(RecordsOfRow(1)) = 4
    /\ \E k \in RecordsOfRow(2) : failed_details[k][3] = <<"U", "1">>

C7_Idempotent ==
    (run_no > 1 /\ pc \in Terminal) =>
        /\ pc = prev.outcome
        /\ console = prev.console
        /\ json_file = prev.report

C7_Witness ==
    /\ run_no = 2
    /\ pc = "exit0"
    /\ failed_details # <<>>
    /\ prev.report # <<>>

\* C8 as stated: for every finite input a run that has ended has either
\* processed every row and reported, or aborted on a schema mismatch. (Stated
\* for the files that have a header record; a file with no record at all ends
\* in StopIteration, a third outcome too.)
C8_TwoOutcomes ==
    (argc = 2 /\ file # <<>> /\ pc \in Terminal) => pc \in {"exit0", "ValueError"}

\* the input has a header record and every data record has at least 7 fields
WellFormedInput ==
    /\ argc = 2
    /\ file # <<>>
    /\ \A k \in 2..Len(file) : Len(file[k]) >= NumColumns

\* C8 amended: for every finite input that has a header record and whose data
\* records have at least 7 fields each, the run always ends, and it ends either
\* with every row processed and the report written or in the schema ValueError.
C8_TwoOutcomesWellFormed ==
    /\ [](WellFormedInput =>
            /\ pc \in Terminal => pc \in {"exit0", "ValueError"}
            /\ pc = "exit0" => (reader = Len(file) /\ json_file # <<>>)
            /\ pc = "ValueError" => ~SchemaMatches(file[1]))
    /\ (WellFormedInput /\ pc = "main") ~> (pc \in {"exit0", "ValueError"})

C8_Witness ==
    /\ WellFormedInput
    /\ pc = "exit0"
    /\ total_rows = 2
    /\ \E k \in 2..Len(file) : Len(file[k]) > NumColumns

\* C9: failure records are kept in the order found: row numbers are non-decreasing
\* and within 1..total_rows, records of one row are in schema column order, later
\* steps of a run only append, and the report lists them in the same order.
C9_FailureOrder ==
    /\ [](/\ \A k \in 1..Len(failed_details) : failed_details[k][1] \in 1..total_rows
          /\ \A a, b \in 1..Len(failed_details) :
                 a < b =>
                     /\ failed_details[a][1] <= failed_details[b][1]
                     /\ failed_details[a][1] = failed_details[b][1] =>
                            ColumnIndex(failed_details[a][2]) <
                                ColumnIndex(failed_details[b][2])
          /\ pc = "exit0" =>
                 /\ Len(json_file[1].failed_details) = Len(failed_details)
                 /\ \A k \in 1..Len(failed_details) :
                        json_file[1].failed_details[k] =
                            [row |-> failed_details[k][1],
                             column |-> failed_details[k][2],
                             invalid_value |-> failed_details[k][3]])
    /\ [][run_no' = run_no => IsPrefix(failed_details, failed_details')]_vars

C9_Witness ==
    /\ pc = "exit0"
    /\ Len(failed_details) >= 3
    /\ failed_details[1][1] = 1
    /\ failed_details[Len(failed_details)][1] = 2
    /\ failed_details[1][1] = failed_details[2][1]

\* C10: at every row boundary failed_rows is the number of distinct row numbers in
\* failed_details, so failed_rows > 0 iff failed_details is non-empty and
\* failed_rows <= len(failed_details) <= 7 * failed_rows; the console, which lists
\* the failures only when failed_rows > 0, prints one line per record.
C10_FailedRowsCountsRows ==
    AtRowBoundary =>
        /\ failed_rows =
               Cardinality({failed_details[k][1] : k \in 1..Len(failed_details)})
        /\ failed_rows > 0 <=> failed_details # <<>>
        /\ failed_rows <= Len(failed_details)
        /\ Len(failed_details) <= NumColumns * failed_rows
        /\ pc = "exit0" =>
               Len(SelectSeq(console, LAMBDA l : l.kind = "detail")) = Len(failed_details)

C10_Witness ==
    /\ pc = "exit0"
    /\ failed_rows = 1
    /\ passed_rows = 1
    /\ Len(failed_details) = NumColumns

====
